---- MODULE Spec2Model ----
(***************************************************************************)
(* The due-reminder reconciler of the notification service and the         *)
(* reminder API it shares its store with                                   *)
(* (notification-service/routes/notifications.py), the task routes of the  *)
(* task service and the bridge by which they register reminders            *)
(* (task-service/routes/tasks.py).                                         *)
(*                                                                         *)
(* Every request handler is a coroutine; each `await` on the store is a    *)
(* point where another handler may run.  check_due_reminders is therefore  *)
(* modelled one store operation at a time; the reminder CRUD handlers are  *)
(* modelled by their single write.                                         *)
(***************************************************************************)
EXTENDS Integers, Sequences, FiniteSets, TLC

\* ---------------------------------------------------------------- bounds
MaxReminders == 2      \* reminders ever created (store-assigned ids 1..MaxReminders)
MaxPasses    == 2      \* invocations of check_due_reminders
MaxTime      == 1      \* the clock runs 0..MaxTime
MaxSends     == 2      \* calls of send_notification
MaxCounted   == 2      \* tasks ever created while get_task_stats counts
MaxStored    == 2      \* tasks in a store get_task_stats counts at rest
MaxTasks     == 1      \* tasks ever created (store-assigned ids 1..MaxTasks)
MaxFailures  == 1      \* store writes that fail while the service is polled

\* ---------------------------------------------------------------- domains
\* NotificationStatus
Statuses == {"pending", "sent", "failed", "cancelled"}

\* Optional[datetime] = None
NoTime == -1

Times     == 0..MaxTime
TaskIds   == {"task1"}
Titles    == {"Reminder: a"}
Messages  == {"Task 'a' is due soon"}
ReminderIds == 1..MaxReminders
Passes      == 1..MaxPasses
Sends       == 1..MaxSends

\* ---------------------------------------------------------------- state
VARIABLES
    clock,               \* datetime.utcnow()
    reminders,           \* db.reminders: _id -> document
    nextId,              \* the next _id insert_one assigns in db.reminders
    notifications,       \* db.notifications, in insertion order
    pc,                  \* per pass: where check_due_reminders stands
    now,                 \* per pass: its local `now`
    due_reminders,       \* per pass: the documents its find() returned
    idx,                 \* per pass: position of reminder_doc in due_reminders
    notifications_sent,  \* per pass: its local counter
    origin,              \* history: per notification, the reminder and pass it came from
    changed,             \* history: per pass, reminders it moved from pending to sent
    pre,                 \* history: the stores as a pass found them (sequential runs)
    tasks,               \* db.tasks: _id -> document
    nextTaskId,          \* the next _id insert_one assigns in db.tasks
    treq,                \* the task-service request being handled, or the last one answered
    notification_service_url,  \* settings.notification_service_url, as the path it ends in
    sends,               \* per call of send_notification: where it stands, and its inserted_id
    rreq,                \* the last answer of the notification service to a request by id
    stats,               \* the call of get_task_stats: where it stands, and its counts
    failures,            \* store writes of the reconciler that have raised
    ureq                 \* the update request being handled one store operation at a time, or the last one answered

storeVars == <<reminders, nextId, notifications>>
passVars  == <<pc, now, due_reminders, idx, notifications_sent>>
histVars  == <<origin, changed, pre>>
taskVars  == <<tasks, nextTaskId, treq, notification_service_url>>
auxVars   == <<rreq, stats, failures, ureq>>
vars      == <<clock, reminders, nextId, notifications, pc, now, due_reminders, idx,
               notifications_sent, origin, changed, pre, tasks, nextTaskId, treq,
               notification_service_url, sends, rreq, stats, failures, ureq>>

NoSnapshot == [reminders |-> <<>>, pass |-> 0, now |-> NoTime]

\* os.getenv("NOTIFICATION_SERVICE_URL", "http://notification-service:8001"):
\* the path component of the URL, as a sequence of segments
DefaultUrlPath == <<>>

\* no request of the task service has been received yet
NoRequest == [op |-> "none", pc |-> "idle", task_id |-> 0,
              task_obj |-> <<>>, bridge |-> "none", code |-> 0, response |-> <<>>,
              seen |-> 0]

\* no request by id has been answered by the notification service yet
NoAnswer == [code |-> 0]

\* get_task_stats has not been called
NoStats == [pc |-> 0, now |-> NoTime, total_tasks |-> 0, pending_tasks |-> 0,
            in_progress_tasks |-> 0, completed_tasks |-> 0, cancelled_tasks |-> 0,
            overdue_tasks |-> 0, upcoming_tasks |-> 0, completion_rate |-> NoTime]

\* no update request has been made
NoUpdate == [pc |-> "idle", store |-> "none", id |-> 0, update_data |-> <<>>,
             code |-> 0, response |-> <<>>]

\* everything but the clock and the task store
InitOther ==
    /\ reminders = <<>>
    /\ nextId = 1
    /\ notifications = <<>>
    /\ pc = [p \in Passes |-> "idle"]
    /\ now = [p \in Passes |-> NoTime]
    /\ due_reminders = [p \in Passes |-> <<>>]
    /\ idx = [p \in Passes |-> 0]
    /\ notifications_sent = [p \in Passes |-> 0]
    /\ origin = <<>>
    /\ changed = [p \in Passes |-> 0]
    /\ pre = NoSnapshot
    /\ treq = NoRequest
    /\ sends = [s \in Sends |-> [pc |-> "idle", inserted_id |-> 0]]
    /\ rreq = NoAnswer
    /\ stats = NoStats
    /\ failures = 0
    /\ ureq = NoUpdate

InitStores ==
    /\ InitOther
    /\ clock = 0
    /\ tasks = <<>>
    /\ nextTaskId = 1

Init == InitStores /\ notification_service_url = DefaultUrlPath

\* ---------------------------------------------------------------- the clock
Tick ==
    /\ clock < MaxTime
    /\ clock' = clock + 1
    /\ UNCHANGED <<auxVars, taskVars, sends, storeVars, passVars, histVars>>

\* ---------------------------------------------------------------- reminder API
\* POST /reminders.  created_at and task_due_date are written here and never
\* read or written again by any handler below; they are left out of the document.
create_reminder(task_id, title, message, reminder_time) ==
    /\ nextId <= MaxReminders
    /\ reminders' = reminders @@
          (nextId :> [task_id       |-> task_id,
                      title         |-> title,
                      message       |-> message,
                      reminder_time |-> reminder_time,
                      status        |-> "pending",
                      sent_at       |-> NoTime,
                      updated_at    |-> clock])
    /\ nextId' = nextId + 1
    /\ UNCHANGED <<auxVars, taskVars, sends, clock, notifications, passVars, histVars>>

\* ReminderUpdate.model_dump(exclude_unset=True): the fields the request sets
UpdateStatuses == {"pending", "cancelled"}

UpdatePayloads ==
    {[status |-> s] : s \in UpdateStatuses}
      \cup {[reminder_time |-> t] : t \in Times}

\* {"$set": update_data} on one document
ApplySet(doc, u) ==
    [f \in DOMAIN doc |-> IF f \in DOMAIN u THEN u[f] ELSE doc[f]]

\* PUT /reminders/{reminder_id}
update_reminder(reminder_id, u) ==
    /\ reminder_id \in DOMAIN reminders
    /\ reminders' = [reminders EXCEPT ![reminder_id] =
                        ApplySet(@, u @@ [updated_at |-> clock])]
    /\ UNCHANGED <<auxVars, taskVars, sends, clock, nextId, notifications, passVars, histVars>>

\* DELETE /reminders/{reminder_id}
delete_reminder(reminder_id) ==
    /\ reminder_id \in DOMAIN reminders
    /\ reminders' = [r \in DOMAIN reminders \ {reminder_id} |-> reminders[r]]
    /\ UNCHANGED <<auxVars, taskVars, sends, clock, nextId, notifications, passVars, histVars>>

\* ---------------------------------------------------------------- the reconciler
\* GET /reminders/due/check, one store operation per step.
\*   idle -> scan -> (insert -> update)* -> done        aborted: an exception left it

Running(p) == pc[p] \in {"scan", "insert", "update"}

\* mutant of IsDue: "$lt" in place of "$lte"
IsDueStrict(doc, t) == doc.reminder_time < t /\ doc.status = "pending"

\* mutant of IsDue: the reminder_time condition left out of the filter
IsDueAnyTime(doc, t) == doc.status = "pending"

\* the find() filter: reminder_time <= now and status = pending
IsDue(doc, t) == doc.reminder_time <= t /\ doc.status = "pending"

\* the orders in which a cursor without sort() may return the documents of S
Orders(S) ==
    {s \in [1..Cardinality(S) -> S] : \A i, j \in DOMAIN s : i # j => s[i] # s[j]}

\* reminder_doc: a document as find() returned it (the fields the loop reads)
Found(rid) ==
    [id      |-> rid,
     task_id |-> reminders[rid].task_id,
     title   |-> reminders[rid].title,
     message |-> reminders[rid].message]

\* now = datetime.utcnow().  Passes are numbered in the order they are invoked.
BeginPass(p) ==
    /\ pc[p] = "idle"
    /\ p > 1 => pc[p - 1] # "idle"
    /\ now' = [now EXCEPT ![p] = clock]
    /\ pc' = [pc EXCEPT ![p] = "scan"]
    /\ UNCHANGED <<auxVars, taskVars, sends, clock, storeVars, due_reminders, idx, notifications_sent, origin, changed>>

Begin(p) == BeginPass(p) /\ UNCHANGED pre

\* due_reminders = await db.reminders.find({...}).to_list(length=None);
\* with nothing found the loop body never runs and the handler returns
Scan(p) ==
    /\ pc[p] = "scan"
    /\ \E s \in Orders({r \in DOMAIN reminders : IsDue(reminders[r], now[p])}) :
          IF s = <<>>
            THEN /\ pc' = [pc EXCEPT ![p] = "done"]
                 /\ now' = [now EXCEPT ![p] = NoTime]
                 /\ UNCHANGED <<due_reminders, idx>>
            ELSE /\ pc' = [pc EXCEPT ![p] = "insert"]
                 /\ due_reminders' = [due_reminders EXCEPT ![p] =
                                         [i \in DOMAIN s |-> Found(s[i])]]
                 /\ idx' = [idx EXCEPT ![p] = 1]
                 /\ UNCHANGED now
    /\ UNCHANGED <<auxVars, taskVars, sends, clock, storeVars, notifications_sent, histVars>>

\* mutant of NewNotification: utcnow() read again for every notification
NewNotificationAtClock(reminder_doc, t) ==
    [task_id |-> reminder_doc.task_id, title |-> reminder_doc.title,
     message |-> reminder_doc.message, notification_type |-> "reminder",
     created_at |-> clock, status |-> "sent", sent_at |-> clock]

\* NotificationCreate(...).model_dump() plus created_at, status, sent_at
NewNotification(reminder_doc, t) ==
    [task_id           |-> reminder_doc.task_id,
     title             |-> reminder_doc.title,
     message           |-> reminder_doc.message,
     notification_type |-> "reminder",
     created_at        |-> t,
     status            |-> "sent",
     sent_at           |-> t]

\* {"$set": {"status": SENT, "sent_at": now, "updated_at": now}}
MarkSent(doc, t) == [doc EXCEPT !.status = "sent", !.sent_at = t, !.updated_at = t]

\* the documents update_one({"_id": reminder_doc["_id"]}, ...) matches
Matches(rid) == rid \in DOMAIN reminders

\* mutant of Insert: the reminder is marked sent before its notification is inserted
InsertAfterMark(p) ==
    LET rid == due_reminders[p][idx[p]].id IN
    /\ pc[p] = "insert"
    /\ reminders' = IF Matches(rid)
                       THEN [reminders EXCEPT ![rid] = MarkSent(@, now[p])]
                       ELSE reminders
    /\ notifications' = Append(notifications, NewNotification(due_reminders[p][idx[p]], now[p]))
    /\ origin' = Append(origin, [rid |-> rid, pass |-> p])
    /\ pc' = [pc EXCEPT ![p] = "update"]
    /\ UNCHANGED <<auxVars, taskVars, sends, clock, nextId, now, due_reminders, idx, notifications_sent, changed, pre>>

\* await db.notifications.insert_one(notification_dict)
Insert(p) ==
    /\ pc[p] = "insert"
    /\ notifications' = Append(notifications, NewNotification(due_reminders[p][idx[p]], now[p]))
    /\ origin' = Append(origin, [rid |-> due_reminders[p][idx[p]].id, pass |-> p])
    /\ pc' = [pc EXCEPT ![p] = "update"]
    /\ UNCHANGED <<auxVars, taskVars, sends, clock, reminders, nextId, now, due_reminders, idx, notifications_sent,
                   changed, pre>>

\* mutant of Update: update_one(..., upsert=True), which stores a document
\* for a reminder it does not find
UpdateUpserting(p) ==
    LET reminder_doc == due_reminders[p][idx[p]]
        rid == reminder_doc.id
    IN
    /\ pc[p] = "update"
    /\ reminders' = [r \in DOMAIN reminders \cup {rid} |->
                        IF r # rid THEN reminders[r]
                        ELSE IF Matches(rid) THEN MarkSent(reminders[rid], now[p])
                        ELSE [task_id |-> reminder_doc.task_id, title |-> reminder_doc.title,
                              message |-> reminder_doc.message, reminder_time |-> now[p],
                              status |-> "sent", sent_at |-> now[p], updated_at |-> now[p]]]
    /\ notifications_sent' = [notifications_sent EXCEPT ![p] = @ + 1]
    /\ IF idx[p] = Len(due_reminders[p])
         THEN /\ pc' = [pc EXCEPT ![p] = "done"]
              /\ due_reminders' = [due_reminders EXCEPT ![p] = <<>>]
              /\ idx' = [idx EXCEPT ![p] = 0]
              /\ now' = [now EXCEPT ![p] = NoTime]
         ELSE /\ pc' = [pc EXCEPT ![p] = "insert"]
              /\ idx' = [idx EXCEPT ![p] = @ + 1]
              /\ UNCHANGED <<due_reminders, now>>
    /\ UNCHANGED <<auxVars, taskVars, sends, clock, nextId, notifications, origin, pre, changed>>

\* mutant of Update: a compare-and-set on status = pending, counting only a
\* reminder the update matched
UpdateIfPending(p) ==
    LET rid == due_reminders[p][idx[p]].id
        hit == Matches(rid) /\ reminders[rid].status = "pending" IN
    /\ pc[p] = "update"
    /\ reminders' = IF hit THEN [reminders EXCEPT ![rid] = MarkSent(@, now[p])]
                           ELSE reminders
    /\ changed' = [changed EXCEPT ![p] = IF hit THEN @ + 1 ELSE @]
    /\ notifications_sent' = [notifications_sent EXCEPT ![p] = IF hit THEN @ + 1 ELSE @]
    /\ IF idx[p] = Len(due_reminders[p])
         THEN /\ pc' = [pc EXCEPT ![p] = "done"]
              /\ due_reminders' = [due_reminders EXCEPT ![p] = <<>>]
              /\ idx' = [idx EXCEPT ![p] = 0]
              /\ now' = [now EXCEPT ![p] = NoTime]
         ELSE /\ pc' = [pc EXCEPT ![p] = "insert"]
              /\ idx' = [idx EXCEPT ![p] = @ + 1]
              /\ UNCHANGED <<due_reminders, now>>
    /\ UNCHANGED <<auxVars, taskVars, sends, clock, nextId, notifications, origin, pre>>

\* await db.reminders.update_one(...); notifications_sent += 1; then the next
\* iteration, or the return, which drops the locals and leaves the count as the response
Update(p) ==
    LET rid == due_reminders[p][idx[p]].id IN
    /\ pc[p] = "update"
    /\ reminders' = IF Matches(rid)
                       THEN [reminders EXCEPT ![rid] = MarkSent(@, now[p])]
                       ELSE reminders
    /\ changed' = [changed EXCEPT ![p] =
                       IF rid \in DOMAIN reminders /\ reminders[rid].status = "pending"
                          /\ reminders'[rid].status = "sent"
                         THEN @ + 1 ELSE @]
    /\ notifications_sent' = [notifications_sent EXCEPT ![p] = @ + 1]
    /\ IF idx[p] = Len(due_reminders[p])
         THEN /\ pc' = [pc EXCEPT ![p] = "done"]
              /\ due_reminders' = [due_reminders EXCEPT ![p] = <<>>]
              /\ idx' = [idx EXCEPT ![p] = 0]
              /\ now' = [now EXCEPT ![p] = NoTime]
         ELSE /\ pc' = [pc EXCEPT ![p] = "insert"]
              /\ idx' = [idx EXCEPT ![p] = @ + 1]
              /\ UNCHANGED <<due_reminders, now>>
    /\ UNCHANGED <<auxVars, taskVars, sends, clock, nextId, notifications, origin, pre>>

\* mutant of InsertFails: the exception is swallowed and the pass goes on to
\* its update_one
InsertFailsQuietly(p) ==
    /\ pc[p] = "insert"
    /\ pc' = [pc EXCEPT ![p] = "update"]
    /\ UNCHANGED <<auxVars, taskVars, sends, clock, storeVars, now, due_reminders, idx, notifications_sent, histVars>>

\* insert_one raises: nothing is written, the exception leaves the handler
InsertFails(p) ==
    /\ pc[p] = "insert"
    /\ pc' = [pc EXCEPT ![p] = "aborted"]
    /\ UNCHANGED <<auxVars, taskVars, sends, clock, storeVars, now, due_reminders, idx, notifications_sent, histVars>>

\* update_one raises, or the process stops before it: the notification stays inserted
UpdateFails(p) ==
    /\ pc[p] = "update"
    /\ pc' = [pc EXCEPT ![p] = "aborted"]
    /\ UNCHANGED <<auxVars, taskVars, sends, clock, storeVars, now, due_reminders, idx, notifications_sent, histVars>>

\* ---------------------------------------------------------------- specifications
CreateReminder ==
    \E t \in TaskIds, ti \in Titles, m \in Messages, rt \in Times :
        create_reminder(t, ti, m, rt)

UpdateReminder == \E r \in ReminderIds, u \in UpdatePayloads : update_reminder(r, u)

DeleteReminder == \E r \in ReminderIds : delete_reminder(r)

\* Requests arrive at any time; passes may overlap.
Next ==
    \/ Tick
    \/ CreateReminder
    \/ UpdateReminder
    \/ DeleteReminder
    \/ \E p \in Passes : Begin(p)
    \/ \E p \in Passes : Scan(p)
    \/ \E p \in Passes : Insert(p)
    \/ \E p \in Passes : Update(p)
    \/ \E p \in Passes : InsertFails(p)
    \/ \E p \in Passes : UpdateFails(p)

Spec == Init /\ [][Next]_vars

\* no pass is between its first and its last store operation
Quiet == \A p \in Passes : ~Running(p)

\* Passes one after the other, each running to its return; the reminder API
\* is called at any time.
BeginSeq(p) == Quiet /\ Begin(p)

NextSeq ==
    \/ Tick
    \/ CreateReminder
    \/ UpdateReminder
    \/ DeleteReminder
    \/ \E p \in Passes : BeginSeq(p)
    \/ \E p \in Passes : Scan(p)
    \/ \E p \in Passes : Insert(p)
    \/ \E p \in Passes : Update(p)

SpecSeq == Init /\ [][NextSeq]_vars

\* A pass with nothing else running beside it: requests are served only between
\* passes.  The stores as the pass found them are remembered in `pre`.
BeginSolo(p) ==
    /\ Quiet
    /\ BeginPass(p)
    /\ pre' = [reminders |-> reminders, pass |-> p, now |-> clock]

TickSolo == Quiet /\ Tick

CreateReminderSolo == Quiet /\ CreateReminder

UpdateReminderSolo == Quiet /\ UpdateReminder

DeleteReminderSolo == Quiet /\ DeleteReminder

NextSolo ==
    \/ TickSolo
    \/ CreateReminderSolo
    \/ UpdateReminderSolo
    \/ DeleteReminderSolo
    \/ \E p \in Passes : BeginSolo(p)
    \/ \E p \in Passes : Scan(p)
    \/ \E p \in Passes : Insert(p)
    \/ \E p \in Passes : Update(p)
    \/ \E p \in Passes : InsertFails(p)
    \/ \E p \in Passes : UpdateFails(p)

SpecSolo == Init /\ [][NextSolo]_vars

\* ---------------------------------------------------------------- task service
(***************************************************************************)
(* task-service/routes/tasks.py.  A handler's store operations are taken   *)
(* as one step; the POST that notify_reminder_service awaits is a second   *)
(* step, so the clock, the reconciler and the reminder store move while a  *)
(* handler waits for it.  One task-service request is handled at a time.   *)
(* Of a task document only the fields some handler reads after writing     *)
(* them are kept: description, priority, category, created_at and          *)
(* updated_at are left out.                                                *)
(***************************************************************************)

\* TaskStatus
TaskStatuses == {"pending", "in_progress", "completed", "cancelled"}

\* Field(..., min_length=1, max_length=200) of TaskBase.title and ReminderBase.title
TitleMaxLength == 200

\* Field(..., min_length=1, max_length=500) of ReminderBase.message
MessageMaxLength == 500

RECURSIVE Repeat(_, _)
Repeat(str, n) == IF n = 0 THEN "" ELSE str \o Repeat(str, n - 1)

\* a title, and the longest title TaskCreate accepts
LongTitle  == Repeat("a", TitleMaxLength)
TaskTitles == {"a", LongTitle}
TaskKeys   == 1..MaxTasks

\* str(created_task["_id"]): the task's id as the services exchange it
ObjectIdStrings == <<"task1", "task2", "task3">>
ObjectIdStr(i) == ObjectIdStrings[i]

\* TaskCreate bodies
TaskCreates == [title : TaskTitles, reminder_enabled : BOOLEAN,
                reminder_time : Times \cup {NoTime}, due_date : {NoTime}]

\* TaskUpdate bodies after model_dump(exclude_unset=True)
TaskUpdates ==
    {[status |-> s] : s \in TaskStatuses}
        \cup {[reminder_enabled |-> b] : b \in BOOLEAN}
        \cup {[reminder_time |-> t] : t \in Times \cup {NoTime}}

\* app.include_router(notifications_router, prefix="/api/v1")
RouterPrefix == <<"api", "v1">>

\* values NOTIFICATION_SERVICE_URL takes: unset, or set to the mounted router
ServiceUrlPaths == {DefaultUrlPath, RouterPrefix}

\* f"{settings.notification_service_url}/reminders" is a route of the
\* notification service
Routed(url_path) == url_path \o <<"reminders">> = RouterPrefix \o <<"reminders">>

\* `if task.reminder_enabled and task.reminder_time`
HasReminder(task) == task.reminder_enabled /\ task.reminder_time # NoTime

\* the JSON body notify_reminder_service posts
ReminderRequest(task) ==
    [task_id |-> task.id,
     title |-> "Reminder: " \o task.title,
     message |-> "Task '" \o task.title \o "' is due soon",
     reminder_time |-> task.reminder_time]

\* ReminderCreate accepts the body (422 Unprocessable Entity otherwise)
ValidReminder(req) ==
    /\ Len(req.title) \in 1..TitleMaxLength
    /\ Len(req.message) \in 1..MessageMaxLength

\* Task(**document) with _id converted to a string
TaskObj(id, doc) ==
    [id |-> ObjectIdStr(id), title |-> doc.title, status |-> doc.status,
     reminder_enabled |-> doc.reminder_enabled, reminder_time |-> doc.reminder_time,
     completed_at |-> doc.completed_at]

\* the handler stands at `await client.post(...)`
Awaiting(op, id, task_obj) ==
    [op |-> op, pc |-> "bridge", task_id |-> id,
     task_obj |-> task_obj, bridge |-> "none", code |-> 0, response |-> <<>>, seen |-> 0]

\* the handler has returned `response` with status `code`
Answered(op, id, code, response, bridge) ==
    [op |-> op, pc |-> "done", task_id |-> id,
     task_obj |-> <<>>, bridge |-> bridge, code |-> code, response |-> response, seen |-> 0]

\* `await notify_reminder_service(task_obj); return task_obj`
NotifyThenReturn(op, id, task_obj) ==
    IF HasReminder(task_obj)
    THEN Awaiting(op, id, task_obj)
    ELSE Answered(op, id, 200, task_obj, "none")

InFlight == treq.pc = "bridge"

create_task(task) ==
    /\ ~InFlight
    /\ LET task_dict == [title |-> task.title,
                         due_date |-> task.due_date,
                         reminder_enabled |-> task.reminder_enabled,
                         reminder_time |-> task.reminder_time,
                         status |-> "pending",
                         completed_at |-> NoTime]
       IN  /\ tasks' = tasks @@ (nextTaskId :> task_dict)
           /\ treq' = NotifyThenReturn("create", nextTaskId, TaskObj(nextTaskId, task_dict))
    /\ nextTaskId' = nextTaskId + 1
    /\ UNCHANGED <<auxVars, sends, notification_service_url, clock, storeVars, passVars, histVars>>

TouchesAnything(update_data) == TRUE

\* `"reminder_enabled" in update_data or "reminder_time" in update_data`
TouchesReminder(update_data) ==
    "reminder_enabled" \in DOMAIN update_data \/ "reminder_time" \in DOMAIN update_data

update_task(task_id, update_data) ==
    /\ ~InFlight
    /\ IF task_id \notin DOMAIN tasks
       THEN /\ treq' = Answered("update", task_id, 404, <<>>, "none")
            /\ UNCHANGED tasks
       ELSE LET doc == ApplySet(tasks[task_id], update_data)
                task_obj == TaskObj(task_id, doc)
            IN  /\ tasks' = [tasks EXCEPT ![task_id] = doc]
                /\ treq' = IF TouchesReminder(update_data)
                           THEN NotifyThenReturn("update", task_id, task_obj)
                           ELSE Answered("update", task_id, 200, task_obj, "none")
    /\ UNCHANGED <<auxVars, sends, nextTaskId, notification_service_url, clock, storeVars, passVars, histVars>>

DeleteTaskCascading(task_id) ==
    /\ ~InFlight
    /\ task_id \in DOMAIN tasks
    /\ tasks' = [t \in DOMAIN tasks \ {task_id} |-> tasks[t]]
    /\ reminders' = [r \in {q \in DOMAIN reminders :
                                 reminders[q].task_id # ObjectIdStr(task_id)} |-> reminders[r]]
    /\ treq' = [Answered("delete", task_id, 200, <<>>, "none")
                  EXCEPT !.seen = Len(notifications)]
    /\ UNCHANGED <<auxVars, sends, nextTaskId, notification_service_url, clock, nextId, notifications,
                   passVars, histVars>>

delete_task(task_id) ==
    /\ ~InFlight
    /\ IF task_id \notin DOMAIN tasks
       THEN /\ treq' = Answered("delete", task_id, 404, <<>>, "none")
            /\ UNCHANGED tasks
       ELSE /\ tasks' = [t \in DOMAIN tasks \ {task_id} |-> tasks[t]]
            /\ treq' = [Answered("delete", task_id, 200, <<>>, "none")
                          EXCEPT !.seen = Len(notifications)]
    /\ UNCHANGED <<auxVars, sends, nextTaskId, notification_service_url, clock, storeVars, passVars, histVars>>

\* update_data of complete_task, applied by $set
Completed(doc, t) == [doc EXCEPT !.status = "completed", !.completed_at = t]

\* mutant of complete_task: completing a task also cancels its reminders
CompleteTaskCancelling(task_id) ==
    /\ ~InFlight
    /\ IF task_id \notin DOMAIN tasks
       THEN /\ treq' = Answered("complete", task_id, 404, <<>>, "none")
            /\ UNCHANGED <<tasks, reminders>>
       ELSE /\ tasks' = [tasks EXCEPT ![task_id] = Completed(@, clock)]
            /\ reminders' = [r \in DOMAIN reminders |->
                                IF reminders[r].task_id = ObjectIdStr(task_id)
                                THEN [reminders[r] EXCEPT !.status = "cancelled"]
                                ELSE reminders[r]]
            /\ treq' = Answered("complete", task_id, 200,
                                TaskObj(task_id, Completed(tasks[task_id], clock)), "none")
    /\ UNCHANGED <<auxVars, sends, nextTaskId, notification_service_url, clock, nextId, notifications,
                   passVars, histVars>>

complete_task(task_id) ==
    /\ ~InFlight
    /\ IF task_id \notin DOMAIN tasks
       THEN /\ treq' = Answered("complete", task_id, 404, <<>>, "none")
            /\ UNCHANGED tasks
       ELSE /\ tasks' = [tasks EXCEPT ![task_id] = Completed(@, clock)]
            /\ treq' = Answered("complete", task_id, 200,
                                TaskObj(task_id, Completed(tasks[task_id], clock)), "none")
    /\ UNCHANGED <<auxVars, sends, nextTaskId, notification_service_url, clock, storeVars, passVars, histVars>>

\* the reminder the notification service stores for a posted body
NewReminder(req) ==
    [task_id |-> req.task_id, title |-> req.title, message |-> req.message,
     reminder_time |-> req.reminder_time, status |-> "pending",
     sent_at |-> NoTime, updated_at |-> clock]

UpsertReminder(req) ==
    IF \E r \in DOMAIN reminders : reminders[r].task_id = req.task_id
    THEN [r \in DOMAIN reminders |->
             IF reminders[r].task_id = req.task_id THEN NewReminder(req) ELSE reminders[r]]
    ELSE reminders @@ (nextId :> NewReminder(req))

\* create_reminder, run for the body the bridge posted
InsertReminder(req) == reminders @@ (nextId :> NewReminder(req))

\* the POST is routed to create_reminder, which inserts; its response is ignored
BridgeDelivered ==
    /\ InFlight
    /\ Routed(notification_service_url)
    /\ ValidReminder(ReminderRequest(treq.task_obj))
    /\ nextId <= MaxReminders
    /\ reminders' = InsertReminder(ReminderRequest(treq.task_obj))
    /\ nextId' = nextId + 1
    /\ treq' = Answered(treq.op, treq.task_id, 200, treq.task_obj, "created")
    /\ UNCHANGED <<auxVars, sends, tasks, nextTaskId, notification_service_url, clock, notifications,
                   passVars, histVars>>

\* the POST is answered 404 Not Found (no such route) or 422 (body refused);
\* the status of the response is never looked at
BridgeRejected ==
    /\ InFlight
    /\ ~Routed(notification_service_url) \/ ~ValidReminder(ReminderRequest(treq.task_obj))
    /\ treq' = Answered(treq.op, treq.task_id, 200, treq.task_obj, "rejected")
    /\ UNCHANGED <<auxVars, sends, tasks, nextTaskId, notification_service_url, clock, storeVars,
                   passVars, histVars>>

BridgeFailurePropagates ==
    /\ InFlight
    /\ treq' = Answered(treq.op, treq.task_id, 500, <<>>, "failed")
    /\ UNCHANGED <<auxVars, sends, tasks, nextTaskId, notification_service_url, clock, storeVars,
                   passVars, histVars>>

\* the POST raises (connection refused, timeout): `except Exception` prints it
BridgeFails ==
    /\ InFlight
    /\ treq' = Answered(treq.op, treq.task_id, 200, treq.task_obj, "failed")
    /\ UNCHANGED <<auxVars, sends, tasks, nextTaskId, notification_service_url, clock, storeVars,
                   passVars, histVars>>

CreateTask == nextTaskId <= MaxTasks /\ \E task \in TaskCreates : create_task(task)

UpdateTask == \E t \in TaskKeys, u \in TaskUpdates : update_task(t, u)

DeleteTask == \E t \in TaskKeys : delete_task(t)

CompleteTask == \E t \in TaskKeys : complete_task(t)

\* the task service, its bridge, and passes of the reconciler one after another
InitTasks == InitStores /\ notification_service_url \in ServiceUrlPaths

NextTasks ==
    \/ Tick
    \/ CreateTask
    \/ UpdateTask
    \/ DeleteTask
    \/ CompleteTask
    \/ BridgeDelivered
    \/ BridgeRejected
    \/ BridgeFails
    \/ \E p \in Passes : BeginSeq(p)
    \/ \E p \in Passes : Scan(p)
    \/ \E p \in Passes : Insert(p)
    \/ \E p \in Passes : Update(p)

SpecTasks == InitTasks /\ [][NextTasks]_vars


\* ---------------------------------------------------------------- send_notification
(***************************************************************************)
(* POST /notifications/send inserts the notification as pending, then      *)
(* marks the document it inserted as sent; the two store operations are    *)
(* separate steps.  Calls are numbered in the order they arrive.           *)
(***************************************************************************)

\* NotificationType
NotificationTypes == {"reminder", "completion"}

\* notification_dict of send_notification
PendingNotification(notification, t) ==
    [task_id |-> notification.task_id, title |-> notification.title,
     message |-> notification.message,
     notification_type |-> notification.notification_type,
     created_at |-> t, status |-> "pending", sent_at |-> NoTime]

\* NotificationCreate bodies
NotificationCreates ==
    [task_id : TaskIds, title : Titles, message : Messages,
     notification_type : NotificationTypes]

\* insert_one, find_one
SendInsert(s, notification) ==
    /\ sends[s].pc = "idle"
    /\ s > 1 => sends[s - 1].pc # "idle"
    /\ notifications' = Append(notifications, PendingNotification(notification, clock))
    /\ origin' = Append(origin, [rid |-> 0, pass |-> 0])
    /\ sends' = [sends EXCEPT ![s] = [pc |-> "mark", inserted_id |-> Len(notifications) + 1]]
    /\ UNCHANGED <<auxVars, taskVars, clock, reminders, nextId, passVars, changed, pre>>

\* the document update_one({"_id": result.inserted_id}, ...) writes
SentNow(doc, t) == [doc EXCEPT !.status = "sent", !.sent_at = t]

SendMarkLatest(s) ==
    /\ sends[s].pc = "mark"
    /\ notifications' = [notifications EXCEPT ![Len(notifications)] = SentNow(@, clock)]
    /\ sends' = [sends EXCEPT ![s] = [pc |-> "done", inserted_id |-> 0]]
    /\ UNCHANGED <<auxVars, taskVars, clock, reminders, nextId, passVars, histVars>>

\* update_one, return notification_obj
SendMark(s) ==
    /\ sends[s].pc = "mark"
    /\ notifications' = [notifications EXCEPT ![sends[s].inserted_id] = SentNow(@, clock)]
    /\ sends' = [sends EXCEPT ![s] = [pc |-> "done", inserted_id |-> 0]]
    /\ UNCHANGED <<auxVars, taskVars, clock, reminders, nextId, passVars, histVars>>

\* update_one raises: the request ends, the notification stays pending
SendMarkFails(s) ==
    /\ sends[s].pc = "mark"
    /\ sends' = [sends EXCEPT ![s] = [pc |-> "aborted", inserted_id |-> 0]]
    /\ UNCHANGED <<auxVars, taskVars, clock, storeVars, passVars, histVars>>

SendNotification == \E s \in Sends, n \in NotificationCreates : SendInsert(s, n)

\* both writers of the notification store: calls of send_notification that
\* overlap each other and the passes, the passes one after another
NextNotify ==
    \/ Tick
    \/ CreateReminder
    \/ SendNotification
    \/ \E s \in Sends : SendMark(s)
    \/ \E s \in Sends : SendMarkFails(s)
    \/ \E p \in Passes : BeginSeq(p)
    \/ \E p \in Passes : Scan(p)
    \/ \E p \in Passes : Insert(p)
    \/ \E p \in Passes : Update(p)

SpecNotify == Init /\ [][NextNotify]_vars


\* ---------------------------------------------------------------- requests by identifier
(***************************************************************************)
(* The handlers that take an identifier from the path, with the            *)
(* identifier as the client sends it: a string that ObjectId() accepts or  *)
(* refuses, and that names a stored document or none.                      *)
(***************************************************************************)

\* str(_id) of the reminders
ReminderIdStrings == <<"rem1", "rem2", "rem3", "rem4">>

\* a string ObjectId() raises InvalidId for
MalformedId == "not-an-object-id"

\* identifiers in the path: those of the documents ever stored, one that is
\* well formed and never assigned, and a malformed one
TaskPathIds == {ObjectIdStrings[i] : i \in 1..(MaxTasks + 1)} \cup {MalformedId}
ReminderPathIds == {ReminderIdStrings[i] : i \in 1..(MaxReminders + 1)} \cup {MalformedId}

\* ObjectId(s) does not raise
WellFormed(strings, s) == \E i \in DOMAIN strings : strings[i] = s

\* ObjectId(s)
ObjectId(strings, s) == CHOOSE i \in DOMAIN strings : strings[i] = s

\* `except InvalidId: raise HTTPException(status_code=400, ...)` in the task routes
BadTaskId(op) ==
    /\ ~InFlight
    /\ treq' = Answered(op, 0, 400, <<>>, "none")
    /\ UNCHANGED <<auxVars, sends, tasks, nextTaskId, notification_service_url, clock,
                   storeVars, passVars, histVars>>

get_task(task_id) ==
    /\ ~InFlight
    /\ treq' = IF task_id \notin DOMAIN tasks
               THEN Answered("get", task_id, 404, <<>>, "none")
               ELSE Answered("get", task_id, 200, TaskObj(task_id, tasks[task_id]), "none")
    /\ UNCHANGED <<auxVars, sends, tasks, nextTaskId, notification_service_url, clock,
                   storeVars, passVars, histVars>>

GetTaskById(s) ==
    IF WellFormed(ObjectIdStrings, s)
    THEN get_task(ObjectId(ObjectIdStrings, s))
    ELSE BadTaskId("get")

PutTaskById(s, u) ==
    IF WellFormed(ObjectIdStrings, s)
    THEN update_task(ObjectId(ObjectIdStrings, s), u)
    ELSE BadTaskId("update")

DeleteTaskById(s) ==
    IF WellFormed(ObjectIdStrings, s)
    THEN delete_task(ObjectId(ObjectIdStrings, s))
    ELSE BadTaskId("delete")

CompleteTaskById(s) ==
    IF WellFormed(ObjectIdStrings, s)
    THEN complete_task(ObjectId(ObjectIdStrings, s))
    ELSE BadTaskId("complete")

\* the status the notification service answers a request by id with
ReminderAnswer(s) ==
    [code |-> IF ~WellFormed(ReminderIdStrings, s) THEN 400
              ELSE IF ObjectId(ReminderIdStrings, s) \notin DOMAIN reminders THEN 404
              ELSE 200]

GetReminderById(s) ==
    /\ rreq' = ReminderAnswer(s)
    /\ UNCHANGED <<stats, failures, ureq, taskVars, sends, clock, storeVars, passVars, histVars>>

PutReminderById(s, u) ==
    /\ rreq' = ReminderAnswer(s)
    /\ reminders' = IF rreq'.code = 200
                    THEN [reminders EXCEPT ![ObjectId(ReminderIdStrings, s)] =
                             ApplySet(@, u @@ [updated_at |-> clock])]
                    ELSE reminders
    /\ UNCHANGED <<stats, failures, ureq, taskVars, sends, clock, nextId, notifications,
                   passVars, histVars>>

\* the documents of db.reminders without one of them
Without(reminder_id) == [r \in DOMAIN reminders \ {reminder_id} |-> reminders[r]]

DeleteReminderByIdLoose(s) ==
    /\ rreq' = ReminderAnswer(s)
    /\ reminders' = IF rreq'.code = 200 THEN Without(ObjectId(ReminderIdStrings, s))
                    ELSE IF rreq'.code = 400 /\ DOMAIN reminders # {}
                    THEN Without(CHOOSE r \in DOMAIN reminders : TRUE)
                    ELSE reminders
    /\ UNCHANGED <<stats, failures, ureq, taskVars, sends, clock, nextId, notifications,
                   passVars, histVars>>

DeleteReminderById(s) ==
    /\ rreq' = ReminderAnswer(s)
    /\ reminders' = IF rreq'.code = 200 THEN Without(ObjectId(ReminderIdStrings, s))
                    ELSE reminders
    /\ UNCHANGED <<stats, failures, ureq, taskVars, sends, clock, nextId, notifications,
                   passVars, histVars>>

GetTask == \E s \in TaskPathIds : GetTaskById(s)

PutTask == \E s \in TaskPathIds, u \in TaskUpdates : PutTaskById(s, u)

DeleteTaskAt == \E s \in TaskPathIds : DeleteTaskById(s)

CompleteTaskAt == \E s \in TaskPathIds : CompleteTaskById(s)

GetReminder == \E s \in ReminderPathIds : GetReminderById(s)

PutReminder == \E s \in ReminderPathIds, u \in UpdatePayloads : PutReminderById(s, u)

DeleteReminderAt == \E s \in ReminderPathIds : DeleteReminderById(s)

\* both services answering requests by id, at one instant and with the
\* notification service's URL as it is by default
NextById ==
    \/ CreateTask
    \/ GetTask
    \/ PutTask
    \/ DeleteTaskAt
    \/ CompleteTaskAt
    \/ BridgeRejected
    \/ BridgeFails
    \/ CreateReminder
    \/ GetReminder
    \/ PutReminder
    \/ DeleteReminderAt

SpecById == Init /\ [][NextById]_vars


\* ---------------------------------------------------------------- task statistics
(***************************************************************************)
(* GET /tasks/stats/overview runs seven count_documents one after another, *)
(* each awaited, and returns the seven numbers; the analytics page of the  *)
(* frontend derives the completion rate from them.  The clock counts days. *)
(***************************************************************************)

\* timedelta(days=7)
UpcomingDays == 7

\* the fields of TaskStats, in the order get_task_stats computes them
StatsFields == <<"total_tasks", "pending_tasks", "in_progress_tasks", "completed_tasks",
                 "cancelled_tasks", "overdue_tasks", "upcoming_tasks">>

OverdueOrDueNow(doc, t) ==
    /\ doc.due_date # NoTime
    /\ doc.due_date <= t
    /\ doc.status # "completed"

\* {"due_date": {"$lt": now}, "status": {"$ne": COMPLETED}}; null matches no $lt
Overdue(doc, t) ==
    /\ doc.due_date # NoTime
    /\ doc.due_date < t
    /\ doc.status # "completed"

\* {"due_date": {"$gte": now, "$lte": upcoming_deadline}, "status": {"$ne": COMPLETED}}
Upcoming(doc, t) ==
    /\ doc.due_date # NoTime
    /\ doc.due_date >= t
    /\ doc.due_date <= t + UpcomingDays
    /\ doc.status # "completed"

\* the filter of the i-th count_documents
StatsFilter(i, doc, t) ==
    CASE i = 1 -> TRUE
      [] i = 2 -> doc.status = "pending"
      [] i = 3 -> doc.status = "in_progress"
      [] i = 4 -> doc.status = "completed"
      [] i = 5 -> doc.status = "cancelled"
      [] i = 6 -> Overdue(doc, t)
      [] i = 7 -> Upcoming(doc, t)

\* await db.tasks.count_documents(filter)
CountDocuments(i, t) == Cardinality({k \in DOMAIN tasks : StatsFilter(i, tasks[k], t)})

\* the next count of get_task_stats; `now` is read before the sixth
StatsCount ==
    /\ stats.pc < Len(StatsFields)
    /\ LET i == stats.pc + 1
           t == IF i = 6 THEN clock ELSE stats.now
       IN  stats' = [stats EXCEPT !.pc = i, !.now = t,
                                  ![StatsFields[i]] = CountDocuments(i, t)]
    /\ UNCHANGED <<rreq, failures, ureq, taskVars, sends, clock, storeVars, passVars, histVars>>

\* round(x, 1) of n/d, in tenths, ties to the even tenth
RoundTenths(n, d) ==
    LET q == (10 * n) \div d
        r == (10 * n) % d
    IN  IF 2 * r > d \/ (2 * r = d /\ q % 2 = 1) THEN q + 1 ELSE q

\* f"{completion_rate:.1f}" of show_analytics, in tenths of a percent
CompletionRate(completed_tasks, total_tasks) ==
    IF total_tasks > 0 THEN RoundTenths(completed_tasks * 100, total_tasks) ELSE 0

\* the analytics page shows the statistics it was returned
ShowAnalytics ==
    /\ stats.pc = Len(StatsFields)
    /\ stats' = [stats EXCEPT !.pc = Len(StatsFields) + 1,
                    !.completion_rate = CompletionRate(stats.completed_tasks, stats.total_tasks)]
    /\ UNCHANGED <<rreq, failures, ureq, taskVars, sends, clock, storeVars, passVars, histVars>>

\* tasks without a reminder, and changes of status
PlainCreates == {task \in TaskCreates :
                    /\ task.title = "a"
                    /\ ~task.reminder_enabled
                    /\ task.reminder_time = NoTime}
StatusUpdates == {[status |-> s] : s \in TaskStatuses}

CreatePlainTask == nextTaskId <= MaxCounted /\ \E task \in PlainCreates : create_task(task)

UpdateStatus == \E t \in 1..MaxCounted, u \in StatusUpdates :
                    t \in DOMAIN tasks /\ update_task(t, u)

DeleteStored == \E t \in 1..MaxCounted : t \in DOMAIN tasks /\ delete_task(t)

CompleteStored == \E t \in 1..MaxCounted : t \in DOMAIN tasks /\ complete_task(t)

\* one call of get_task_stats while tasks are created, deleted and change status
NextStats ==
    \/ CreatePlainTask
    \/ UpdateStatus
    \/ DeleteStored
    \/ CompleteStored
    \/ StatsCount
    \/ ShowAnalytics

SpecStats == Init /\ [][NextStats]_vars

\* task documents as they may be stored
StoredTasks ==
    [title : {"a"}, due_date : {NoTime} \cup 0..(MaxTime + UpcomingDays + 1),
     reminder_enabled : {FALSE}, reminder_time : {NoTime},
     status : TaskStatuses, completed_at : {NoTime}]

\* a task store at rest, at some instant
InitOverview ==
    /\ InitOther
    /\ notification_service_url = DefaultUrlPath
    /\ clock \in Times
    /\ \E n \in 0..MaxStored :
          /\ tasks \in [1..n -> StoredTasks]
          /\ nextTaskId = n + 1

\* one call of get_task_stats, and the page made of it, with nothing else running
NextOverview ==
    \/ StatsCount
    \/ ShowAnalytics

SpecOverview == InitOverview /\ [][NextOverview]_vars

\* ---------------------------------------------------------------- edited reminders
\* ReminderUpdate bodies that reword a reminder
EditPayloads == {[title |-> "Reminder: b", message |-> "Task 'b' is due soon"]}

EditReminder == \E r \in ReminderIds, u \in EditPayloads : update_reminder(r, u)

\* passes one after another, which store failures may end, while reminders
\* are created, reworded and deleted
NextEdit ==
    \/ Tick
    \/ CreateReminder
    \/ EditReminder
    \/ DeleteReminder
    \/ \E p \in Passes : BeginSeq(p)
    \/ \E p \in Passes : Scan(p)
    \/ \E p \in Passes : Insert(p)
    \/ \E p \in Passes : Update(p)
    \/ \E p \in Passes : InsertFails(p)
    \/ \E p \in Passes : UpdateFails(p)

SpecEdit == Init /\ [][NextEdit]_vars

\* ---------------------------------------------------------------- the polled reconciler
\* GET /reminders/due/check called again and again: a handler that returned or
\* was left by an exception is invoked anew.

\* mutant of Reinvoke: the service is polled MaxPasses times and never again
ReinvokeNever(p) == FALSE /\ UNCHANGED vars

Reinvoke(p) ==
    /\ pc[p] \in {"done", "aborted"}
    /\ pc' = [pc EXCEPT ![p] = "idle"]
    /\ now' = [now EXCEPT ![p] = NoTime]
    /\ due_reminders' = [due_reminders EXCEPT ![p] = <<>>]
    /\ idx' = [idx EXCEPT ![p] = 0]
    /\ notifications_sent' = [notifications_sent EXCEPT ![p] = 0]
    /\ changed' = [changed EXCEPT ![p] = 0]
    /\ UNCHANGED <<auxVars, taskVars, sends, clock, storeVars, origin, pre>>

\* insert_one raises, which it does not do forever
InsertFailsOnce(p) ==
    /\ failures < MaxFailures
    /\ failures' = failures + 1
    /\ pc[p] = "insert"
    /\ pc' = [pc EXCEPT ![p] = "aborted"]
    /\ UNCHANGED <<rreq, stats, ureq, taskVars, sends, clock, storeVars, now, due_reminders, idx,
                   notifications_sent, histVars>>

\* update_one raises, which it does not do forever
UpdateFailsOnce(p) ==
    /\ failures < MaxFailures
    /\ failures' = failures + 1
    /\ pc[p] = "update"
    /\ pc' = [pc EXCEPT ![p] = "aborted"]
    /\ UNCHANGED <<rreq, stats, ureq, taskVars, sends, clock, storeVars, now, due_reminders, idx,
                   notifications_sent, histVars>>

\* PUT /reminders/{id} {"status": "cancelled"}
CancelReminder == \E r \in ReminderIds : update_reminder(r, [status |-> "cancelled"])

NextLive ==
    \/ Tick
    \/ CreateReminder
    \/ CancelReminder
    \/ DeleteReminder
    \/ \E p \in Passes : BeginSeq(p)
    \/ \E p \in Passes : Scan(p)
    \/ \E p \in Passes : Insert(p)
    \/ \E p \in Passes : Update(p)
    \/ \E p \in Passes : InsertFailsOnce(p)
    \/ \E p \in Passes : UpdateFailsOnce(p)
    \/ \E p \in Passes : Reinvoke(p)

\* the service keeps being polled, and an awaited store operation returns or
\* raises
Polled ==
    \A p \in Passes :
        /\ WF_vars(BeginSeq(p))
        /\ WF_vars(Scan(p))
        /\ WF_vars(Insert(p))
        /\ WF_vars(Update(p))
        /\ WF_vars(Reinvoke(p))

SpecLive == Init /\ [][NextLive]_vars /\ Polled

\* ---------------------------------------------------------------- updates, one store operation per step
(***************************************************************************)
(* update_task and update_reminder await three store operations: find_one  *)
(* (the existence check), update_one, and find_one again for the record    *)
(* to return.  Other requests are served between them.                     *)
(***************************************************************************)
UpdateStores == {"tasks", "reminders"}

Collection(store) == IF store = "tasks" THEN tasks ELSE reminders

\* update_data for the store: the body, and for a reminder updated_at
UpdateData(store, u) == IF store = "tasks" THEN u ELSE u @@ [updated_at |-> clock]

\* existing = await db.<store>.find_one({"_id": object_id}); 404 when there is none
UpdateFind(store, id, u) ==
    /\ ureq.pc \in {"idle", "done"}
    /\ ureq' = IF id \in DOMAIN Collection(store)
               THEN [pc |-> "write", store |-> store, id |-> id, update_data |-> u,
                     code |-> 0, response |-> <<>>]
               ELSE [pc |-> "done", store |-> store, id |-> id, update_data |-> u,
                     code |-> 404, response |-> <<>>]
    /\ UNCHANGED <<rreq, stats, failures, taskVars, sends, clock, storeVars, passVars, histVars>>

\* await db.<store>.update_one({"_id": object_id}, {"$set": update_data});
\* it matches nothing when the record is gone
UpdateSet ==
    /\ ureq.pc = "write"
    /\ IF ureq.store = "tasks"
       THEN /\ tasks' = IF ureq.id \in DOMAIN tasks
                        THEN [tasks EXCEPT ![ureq.id] =
                                 ApplySet(@, UpdateData("tasks", ureq.update_data))]
                        ELSE tasks
            /\ UNCHANGED reminders
       ELSE /\ reminders' = IF ureq.id \in DOMAIN reminders
                            THEN [reminders EXCEPT ![ureq.id] =
                                     ApplySet(@, UpdateData("reminders", ureq.update_data))]
                            ELSE reminders
            /\ UNCHANGED tasks
    /\ ureq' = [ureq EXCEPT !.pc = "read"]
    /\ UNCHANGED <<rreq, stats, failures, nextTaskId, treq, notification_service_url, sends, clock,
                   nextId, notifications, passVars, histVars>>

\* updated = await db.<store>.find_one({"_id": object_id}); updated["_id"] = ...
\* With no record found, updated is None and the subscript raises TypeError:
\* the request is answered 500.
UpdateReturn ==
    /\ ureq.pc = "read"
    /\ ureq' = IF ureq.id \in DOMAIN Collection(ureq.store)
               THEN [ureq EXCEPT !.pc = "done", !.code = 200,
                                 !.response = Collection(ureq.store)[ureq.id]]
               ELSE [ureq EXCEPT !.pc = "done", !.code = 500]
    /\ UNCHANGED <<rreq, stats, failures, taskVars, sends, clock, storeVars, passVars, histVars>>

UpdateTaskFind == \E t \in 1..MaxCounted, u \in StatusUpdates : UpdateFind("tasks", t, u)

UpdateReminderFind == \E r \in ReminderIds, u \in UpdatePayloads : UpdateFind("reminders", r, u)

\* an update served step by step while records are created and deleted
NextRace ==
    \/ Tick
    \/ CreatePlainTask
    \/ DeleteStored
    \/ CreateReminder
    \/ DeleteReminder
    \/ UpdateTaskFind
    \/ UpdateReminderFind
    \/ UpdateSet
    \/ UpdateReturn

SpecRace == Init /\ [][NextRace]_vars

\* ---------------------------------------------------------------- properties
\* the notifications pass p inserted for reminder rid
FiredBy(p, rid) == {i \in DOMAIN origin : origin[i].pass = p /\ origin[i].rid = rid}

\* the notifications pass p inserted
InsertedBy(p) == {i \in DOMAIN origin : origin[i].pass = p}

\* the notifications inserted for reminder rid
FiredFor(rid) == {i \in DOMAIN origin : origin[i].rid = rid}

\* pass p takes the step that ends its scan
ScanStep(p) == pc[p] = "scan" /\ pc'[p] # "scan"

\* pass p takes the step that applies its update_one and counts
UpdateStep(p) == pc[p] = "update" /\ pc'[p] \in {"insert", "done"}

\* pass p takes its last step and returns its count
Returns(p) == pc[p] # "done" /\ pc'[p] = "done"

\* the reminder pass p is working on
Current(p) == due_reminders[p][idx[p]].id

\* C1 (holds for a pass that returns, nothing else running beside it): the pass
\* has marked sent exactly the reminders that were pending with
\* reminder_time <= now when it started, and has inserted one notification for
\* each of them; every other reminder is as it was and got no notification.
ExactlyTheDue(p) ==
    /\ DOMAIN reminders = DOMAIN pre.reminders
    /\ \A r \in DOMAIN pre.reminders :
          LET old == pre.reminders[r] IN
          IF old.status = "pending" /\ old.reminder_time <= pre.now
            THEN /\ reminders[r] = [old EXCEPT !.status = "sent", !.sent_at = pre.now,
                                               !.updated_at = pre.now]
                 /\ Cardinality(FiredBy(p, r)) = 1
            ELSE /\ reminders[r] = old
                 /\ FiredBy(p, r) = {}
    /\ \A i \in InsertedBy(p) : origin[i].rid \in DOMAIN pre.reminders

C1_PassProcessesExactlyTheDue ==
    [][\A p \in Passes : (Returns(p) /\ pre.pass = p) => ExactlyTheDue(p)']_vars

\* C1 witness: a pass has returned having fired a due reminder and left a
\* pending one that was not yet due untouched.
C1_Witness ==
    \E p \in Passes :
        /\ pc[p] = "done" /\ pre.pass = p /\ ExactlyTheDue(p)
        /\ \E r1, r2 \in DOMAIN pre.reminders :
              /\ pre.reminders[r1].status = "pending"
              /\ pre.reminders[r1].reminder_time <= pre.now
              /\ reminders[r1].status = "sent"
              /\ pre.reminders[r2].status = "pending"
              /\ pre.reminders[r2].reminder_time > pre.now
              /\ reminders[r2].status = "pending"

\* C2 (the claim as stated; the code violates it): when a store write has failed
\* for one reminder of a pass, every other reminder its scan found has still
\* been processed by that pass.
C2_FailureDoesNotAbortBatch ==
    \A p \in Passes :
        pc[p] = "aborted" =>
            \A i \in DOMAIN due_reminders[p] :
                i # idx[p] => FiredBy(p, due_reminders[p][i].id) # {}

\* C3 (the claim as stated; the code violates it): the count a pass returns is
\* the number of reminders that pass moved from pending to sent.
C3_CountIsNumberMarkedSent ==
    \A p \in Passes : pc[p] = "done" => notifications_sent[p] = changed[p]

\* C4 (the claim as stated; the code violates it): with passes that do not
\* overlap and each run to their return, no reminder has more than one
\* notification once the passes have returned.
C4_OneNotificationPerReminder ==
    Quiet => \A r \in ReminderIds : Cardinality(FiredFor(r)) <= 1

\* C5: a pass whose scan finds no reminder with status pending and
\* reminder_time <= now returns at once with count 0, and that step changes
\* neither the reminder store nor the notification store.
C5_IdlePassHasNoEffect ==
    [][\A p \in Passes :
          (ScanStep(p) /\ ~ \E r \in DOMAIN reminders :
                                /\ reminders[r].status = "pending"
                                /\ reminders[r].reminder_time <= now[p])
            => /\ pc'[p] = "done"
               /\ notifications_sent'[p] = 0
               /\ reminders' = reminders
               /\ notifications' = notifications]_vars

\* C5 witness: a pass has returned count 0 with reminders in the store.
C5_Witness ==
    \E p \in Passes :
        /\ pc[p] = "done"
        /\ notifications_sent[p] = 0
        /\ InsertedBy(p) = {}
        /\ DOMAIN reminders # {}

\* C6: nothing keeps a reminder that one pass has selected from being selected
\* by another: a scan returns every pending due reminder whatever the other
\* passes hold, and a pass that returns has counted every notification it
\* inserted, whether or not another pass fired the same reminder.
C6_ScanHasNoMutualExclusion ==
    /\ [][\A p \in Passes :
             ScanStep(p) =>
                 \A r \in DOMAIN reminders :
                     (reminders[r].status = "pending" /\ reminders[r].reminder_time <= now[p])
                       => (pc'[p] = "insert"
                           /\ \E i \in DOMAIN due_reminders'[p] : due_reminders'[p][i].id = r)]_vars
    /\ [](\A p \in Passes :
             pc[p] = "done" => notifications_sent[p] = Cardinality(InsertedBy(p)))

\* C6 witness: one reminder has two notifications, from two passes that both
\* returned having counted it.
C6_Witness ==
    \E r \in ReminderIds : \E p, q \in Passes :
        /\ p # q
        /\ FiredBy(p, r) # {} /\ FiredBy(q, r) # {}
        /\ pc[p] = "done" /\ pc[q] = "done"
        /\ notifications_sent[p] = Cardinality(InsertedBy(p))
        /\ notifications_sent[q] = Cardinality(InsertedBy(q))
        /\ notifications_sent[p] >= 1 /\ notifications_sent[q] >= 1

\* C7 (the claim as stated; the code violates it): the reconciler's update of a
\* reminder is applied only if the reminder is still pending when the update
\* runs.
C7_UpdateIsConditional ==
    [][\A p \in Passes :
          (UpdateStep(p) /\ Current(p) \in DOMAIN reminders
                         /\ reminders[Current(p)].status # "pending")
            => reminders'[Current(p)] = reminders[Current(p)]]_vars

\* C8 (the claim as stated; the code violates it): a cancelled reminder stays
\* cancelled for as long as it exists.
C8_CancelledIsTerminal ==
    [][\A r \in DOMAIN reminders \cap DOMAIN reminders' :
          reminders[r].status = "cancelled" => reminders'[r].status = "cancelled"]_vars

\* C9 (the claim as stated; the code violates it): no step takes a reminder
\* from sent back to pending.
C9_SentNeverBackToPending ==
    [][\A r \in DOMAIN reminders \cap DOMAIN reminders' :
          reminders[r].status = "sent" => reminders'[r].status # "pending"]_vars

\* C10 (nothing else running beside the pass): when a pass stops after
\* inserting a reminder's notification and before updating the reminder, the
\* notification is in the store and the reminder is still pending and due, so
\* that the scan of any later pass returns it again.
C10_StoppedPassLeavesReminderDue ==
    [][\A p \in Passes :
          (pc[p] = "update" /\ pc'[p] = "aborted")
            => /\ FiredBy(p, Current(p))' # {}
               /\ Current(p) \in DOMAIN reminders'
               /\ reminders'[Current(p)].status = "pending"
               /\ reminders'[Current(p)].reminder_time <= clock']_vars

\* C10 witness: a pass stopped between the insert and the update of a reminder,
\* a later pass fired the reminder again and marked it sent: two notifications.
C10_Witness ==
    \E r \in DOMAIN reminders : \E p, q \in Passes :
        /\ p < q
        /\ pc[p] = "aborted" /\ idx[p] \in DOMAIN due_reminders[p] /\ Current(p) = r
        /\ FiredBy(p, r) # {}
        /\ pc[q] = "done" /\ FiredBy(q, r) # {}
        /\ reminders[r].status = "sent"

\* ---------------------------------------------------------------- task service properties

\* the awaited POST of notify_reminder_service ends, one way or another
BridgeStep == InFlight /\ ~InFlight'

\* C11: whichever way the bridge's call ends (reminder created, request
\* rejected, no answer at all), the step leaves the task store as the handler
\* wrote it and the handler answers 200 with the task it had built.
C11_BridgeOutcomeIsIsolated ==
    [][BridgeStep => /\ tasks' = tasks
                     /\ treq'.code = 200
                     /\ treq'.response = treq.task_obj]_vars

C11_Witness ==
    /\ treq.op = "create"
    /\ treq.bridge = "failed"
    /\ treq.code = 200
    /\ treq.task_id \in DOMAIN tasks
    /\ HasReminder(tasks[treq.task_id])

\* C12: the bridge is called only by create_task and by an update_task whose
\* body holds reminder_enabled or reminder_time, and only when the task that
\* results has reminder_enabled true and a reminder_time; an update holding
\* neither field calls nothing and leaves the reminder store alone.
C12_BridgeTriggers ==
    [][/\ (~InFlight /\ InFlight') =>
            /\ \/ \E task \in TaskCreates : create_task(task)
               \/ \E t \in TaskKeys, u \in TaskUpdates :
                     /\ update_task(t, u)
                     /\ ("reminder_enabled" \in DOMAIN u \/ "reminder_time" \in DOMAIN u)
            /\ tasks'[treq'.task_id].reminder_enabled
            /\ tasks'[treq'.task_id].reminder_time # NoTime
       /\ \A t \in TaskKeys, u \in TaskUpdates :
            (/\ update_task(t, u)
             /\ "reminder_enabled" \notin DOMAIN u
             /\ "reminder_time" \notin DOMAIN u)
                => ~InFlight' /\ reminders' = reminders]_vars

C12_Witness ==
    /\ treq.op = "update"
    /\ treq.bridge = "created"
    /\ \E r \in DOMAIN reminders : reminders[r].task_id = treq.response.id

\* C13: when the notification service has answered the bridge's request for a
\* task created with reminder_enabled and a reminder_time, the reminder store
\* holds a pending reminder with that task's id and that reminder_time.
C13_CreateWithReminderStoresReminder ==
    [][(BridgeStep /\ treq.op = "create" /\ treq'.bridge # "failed") =>
          /\ treq.task_id \in DOMAIN tasks'
          /\ tasks'[treq.task_id].status = "pending"
          /\ \E r \in DOMAIN reminders' :
                /\ reminders'[r].task_id = treq.task_obj.id
                /\ reminders'[r].reminder_time = treq.task_obj.reminder_time
                /\ reminders'[r].status = "pending"]_vars

\* C14: each request of the bridge that create_reminder handles adds one new
\* pending reminder for the task and leaves every reminder there was as it
\* was: the reminders of one task accumulate.
C14_BridgeAlwaysInserts ==
    [][(BridgeStep /\ treq'.bridge = "created") =>
          /\ \A q \in DOMAIN reminders :
                q \in DOMAIN reminders' /\ reminders'[q] = reminders[q]
          /\ \E r \in DOMAIN reminders' \ DOMAIN reminders :
                /\ DOMAIN reminders' = DOMAIN reminders \cup {r}
                /\ reminders'[r].task_id = treq.task_obj.id
                /\ reminders'[r].status = "pending"]_vars

\* two mutations of one task left two reminders, and each was fired
C14_Witness ==
    \E r1, r2 \in DOMAIN reminders :
        /\ r1 # r2
        /\ reminders[r1].task_id = reminders[r2].task_id
        /\ FiredFor(r1) # {}
        /\ FiredFor(r2) # {}

\* C15: every stored task has completed_at set exactly when its status is
\* completed.
C15_CompletedAtIffCompleted ==
    \A t \in DOMAIN tasks :
        (tasks[t].completed_at # NoTime) <=> (tasks[t].status = "completed")

\* C16: complete_task on a task that is completed and has its completed_at
\* leaves completed_at as it was.
C16_CompleteIsIdempotent ==
    [][\A t \in DOMAIN tasks :
          (/\ complete_task(t)
           /\ tasks[t].status = "completed"
           /\ tasks[t].completed_at # NoTime)
              => tasks'[t].completed_at = tasks[t].completed_at]_vars

\* C17: a task that is completed or cancelled keeps that status for as long
\* as it is stored.
C17_TerminalStatusesAreKept ==
    [][\A t \in DOMAIN tasks \cap DOMAIN tasks' :
          tasks[t].status \in {"completed", "cancelled"}
              => tasks'[t].status = tasks[t].status]_vars

\* C19: delete_task leaves the reminder store and the notification store as
\* they were, and a scan selects every pending reminder that is due whether
\* or not its task is still stored.
C19_DeleteDoesNotCascade ==
    [][/\ \A t \in TaskKeys :
            delete_task(t) => reminders' = reminders /\ notifications' = notifications
       /\ \A p \in Passes :
            (pc[p] = "scan" /\ pc'[p] # "scan") =>
                {due_reminders'[p][i].id : i \in DOMAIN due_reminders'[p]}
                    = {r \in DOMAIN reminders :
                          /\ reminders[r].reminder_time <= now[p]
                          /\ reminders[r].status = "pending"}]_vars

\* a reminder of a deleted task was fired after the deletion
C19_Witness ==
    /\ treq.op = "delete"
    /\ treq.code = 200
    /\ treq.task_id \notin DOMAIN tasks
    /\ \E i \in DOMAIN notifications :
          /\ i > treq.seen
          /\ notifications[i].task_id = ObjectIdStr(treq.task_id)

\* C20: while the bridge's request is outstanding the handler has already
\* produced its response.
C20_ResponseDoesNotWaitForBridge ==
    InFlight => treq.code = 200 /\ treq.response # <<>>

\* C18: no step removes a notification; a step that changes a stored
\* notification takes it from pending to sent or failed, writing nothing but
\* status and sent_at; and a notification the reconciler inserted is sent when
\* it is inserted and is never changed.
C18_NotificationsAreAppendOnly ==
    [][/\ Len(notifications') >= Len(notifications)
       /\ \A i \in DOMAIN notifications :
            \/ notifications'[i] = notifications[i]
            \/ /\ origin[i].pass = 0
               /\ notifications[i].status = "pending"
               /\ notifications'[i].status \in {"sent", "failed"}
               /\ [notifications'[i] EXCEPT !.status = "pending", !.sent_at = NoTime]
                     = notifications[i]
       /\ \A i \in DOMAIN notifications' \ DOMAIN notifications :
            origin'[i].pass # 0 => notifications'[i].status = "sent"]_vars

\* a sent notification of send_notification next to one of the reconciler
C18_Witness ==
    \E i, j \in DOMAIN notifications :
        /\ origin[i].pass = 0
        /\ notifications[i].status = "sent"
        /\ notifications[i].sent_at > notifications[i].created_at
        /\ origin[j].pass # 0
        /\ i < j

\* ---------------------------------------------------------------- properties of requests by id

\* the stores of both services and the bridge are as they were
NoSideEffect ==
    /\ tasks' = tasks
    /\ reminders' = reminders
    /\ notifications' = notifications
    /\ nextTaskId' = nextTaskId
    /\ nextId' = nextId
    /\ InFlight' => treq' = treq

\* a request on tasks, or on reminders, with s as the identifier in its path
TaskRequestStep(s) ==
    \/ treq'.op = "get" /\ GetTaskById(s)
    \/ treq'.op = "delete" /\ DeleteTaskById(s)
    \/ treq'.op = "complete" /\ CompleteTaskById(s)
    \/ treq'.op = "update" /\ \E u \in TaskUpdates : PutTaskById(s, u)

ReminderRequestStep(s) ==
    \/ GetReminderById(s)
    \/ DeleteReminderById(s)
    \/ \E u \in UpdatePayloads : PutReminderById(s, u)

\* C21: a request of get/update/delete/complete on tasks or get/update/delete
\* on reminders whose identifier is malformed is answered 400, one whose
\* identifier is well formed and matches no document is answered 404, and in
\* both cases no store changes and the bridge is not called.
C21_ErrorsHaveNoSideEffect ==
    [][/\ treq' # treq => \A s \in TaskPathIds :
            /\ ~WellFormed(ObjectIdStrings, s) =>
                  (TaskRequestStep(s) => treq'.code = 400 /\ NoSideEffect)
            /\ (/\ WellFormed(ObjectIdStrings, s)
                /\ ObjectId(ObjectIdStrings, s) \notin DOMAIN tasks) =>
                  (TaskRequestStep(s) => treq'.code = 404 /\ NoSideEffect)
       /\ rreq' # rreq => \A s \in ReminderPathIds :
            /\ ~WellFormed(ReminderIdStrings, s) =>
                  (ReminderRequestStep(s) => rreq'.code = 400 /\ NoSideEffect)
            /\ (/\ WellFormed(ReminderIdStrings, s)
                /\ ObjectId(ReminderIdStrings, s) \notin DOMAIN reminders) =>
                  (ReminderRequestStep(s) => rreq'.code = 404 /\ NoSideEffect)]_vars

\* both kinds of error were answered while both stores held a document
C21_Witness ==
    /\ treq.code = 404
    /\ rreq.code = 400
    /\ tasks # <<>>
    /\ reminders # <<>>

\* ---------------------------------------------------------------- properties of the statistics

\* get_task_stats has returned
StatsReturned == stats.pc >= Len(StatsFields)

\* C22: the counts one call of get_task_stats returns add up: total_tasks is
\* the sum of the four counts by status.
C22_CountsAreOneSnapshot ==
    StatsReturned =>
        stats.total_tasks = stats.pending_tasks + stats.in_progress_tasks
                              + stats.completed_tasks + stats.cancelled_tasks

\* C23: on a store at rest, overdue_tasks is the number of tasks with a
\* due_date before now and a status other than completed, upcoming_tasks the
\* number of those with now <= due_date <= now + 7 days and a status other
\* than completed, and no task is in both sets.
C23_OverdueAndUpcoming ==
    StatsReturned =>
        LET late == {k \in DOMAIN tasks :
                        /\ tasks[k].due_date # NoTime
                        /\ tasks[k].due_date < stats.now
                        /\ tasks[k].status \in {"pending", "in_progress", "cancelled"}}
            soon == {k \in DOMAIN tasks :
                        /\ tasks[k].due_date # NoTime
                        /\ stats.now <= tasks[k].due_date
                        /\ tasks[k].due_date <= stats.now + 7
                        /\ tasks[k].status \in {"pending", "in_progress", "cancelled"}}
        IN  /\ stats.overdue_tasks = Cardinality(late)
            /\ stats.upcoming_tasks = Cardinality(soon)
            /\ stats.overdue_tasks + stats.upcoming_tasks
                  = Cardinality({k \in DOMAIN tasks :
                        Overdue(tasks[k], stats.now) \/ Upcoming(tasks[k], stats.now)})

\* a cancelled task that is overdue next to a task due on the last day of the week
C23_Witness ==
    /\ StatsReturned
    /\ stats.overdue_tasks = 1
    /\ stats.upcoming_tasks = 1
    /\ \E k \in DOMAIN tasks : tasks[k].status = "cancelled" /\ tasks[k].due_date < stats.now
    /\ \E k \in DOMAIN tasks : tasks[k].due_date = stats.now + 7

\* C24: the completion rate shown is 0 when total_tasks is 0, lies between 0
\* and 100 percent, and is 30.0 for 3 completed tasks of 10.
C24_CompletionRateInRange ==
    /\ CompletionRate(3, 10) = 300
    /\ stats.pc > Len(StatsFields) =>
          /\ stats.total_tasks = 0 => stats.completion_rate = 0
          /\ stats.completion_rate >= 0
          /\ stats.completion_rate <= 1000

\* ---------------------------------------------------------------- properties of the records a pass writes

\* pass p takes the step that inserts a notification
InsertStep(p) == pc[p] = "insert" /\ pc'[p] = "update"

\* C25: what the scan of a pass holds of a reminder is what the store held;
\* the notification the pass inserts for it has notification_type reminder,
\* that task_id, title and message, status sent and sent_at = the pass's now;
\* the reminder is written with status sent, sent_at = now and updated_at =
\* now; and now is the same for as long as the pass runs.
C25_PassWritesItsNow ==
    [][\A p \in Passes :
          /\ ScanStep(p) =>
                \A i \in DOMAIN due_reminders'[p] :
                    LET found == due_reminders'[p][i] IN
                    /\ found.task_id = reminders[found.id].task_id
                    /\ found.title = reminders[found.id].title
                    /\ found.message = reminders[found.id].message
          /\ InsertStep(p) =>
                /\ Len(notifications') = Len(notifications) + 1
                /\ LET n == notifications'[Len(notifications')]
                       reminder_doc == due_reminders[p][idx[p]]
                   IN  /\ n.notification_type = "reminder"
                       /\ n.task_id = reminder_doc.task_id
                       /\ n.title = reminder_doc.title
                       /\ n.message = reminder_doc.message
                       /\ n.status = "sent"
                       /\ n.sent_at = now[p]
          /\ (UpdateStep(p) /\ Current(p) \in DOMAIN reminders) =>
                /\ reminders'[Current(p)].status = "sent"
                /\ reminders'[Current(p)].sent_at = now[p]
                /\ reminders'[Current(p)].updated_at = now[p]
          /\ (Running(p) /\ Running(p)') => now'[p] = now[p]]_vars

\* one pass has fired two reminders, the clock moved meanwhile, and all four
\* records carry the instant the pass began
C25_Witness ==
    \E r1, r2 \in DOMAIN reminders : \E i \in FiredFor(r1), j \in FiredFor(r2) :
        /\ r1 # r2
        /\ origin[i].pass = origin[j].pass
        /\ notifications[i].sent_at = notifications[j].sent_at
        /\ reminders[r1].sent_at = notifications[i].sent_at
        /\ reminders[r2].sent_at = notifications[i].sent_at
        /\ reminders[r1].updated_at = reminders[r1].sent_at
        /\ reminders[r2].updated_at = reminders[r2].sent_at
        /\ clock > notifications[i].sent_at

C28_SentIffSentAt ==
    \A r \in DOMAIN reminders :
        reminders[r].status = "sent" <=> reminders[r].sent_at # NoTime

\* C29: a reminder is due at the moment a pass marks it sent: when the
\* update_one of a pass matches it, its stored reminder_time is not after the
\* pass's now and its stored status is pending.
C29_MarkedWhileDue ==
    [][\A p \in Passes :
          (UpdateStep(p) /\ Current(p) \in DOMAIN reminders) =>
              /\ reminders[Current(p)].reminder_time <= now[p]
              /\ reminders[Current(p)].status = "pending"]_vars

\* C30: no step of a pass creates or removes a reminder record: the set of
\* reminder ids, and the next id to give out, are the same before and after
\* every step that moves a pass, the update_one that matches nothing included.
C30_PassKeepsReminderIds ==
    [][pc' # pc => (DOMAIN reminders' = DOMAIN reminders /\ nextId' = nextId)]_vars

\* a pass has returned after inserting a notification for a reminder that was
\* deleted before its update_one: it changed no reminder, and the reminder is
\* not in the store
C30_Witness ==
    \E p \in Passes : \E i \in InsertedBy(p) :
        /\ pc[p] = "done"
        /\ notifications_sent[p] = 1
        /\ changed[p] = 0
        /\ origin[i].rid \notin DOMAIN reminders

\* reminder r is due: stored, pending, and its reminder_time has come
DueNow(r) ==
    /\ r \in DOMAIN reminders
    /\ reminders[r].status = "pending"
    /\ reminders[r].reminder_time <= clock

C31_TaskStepsKeepReminders ==
    [][(tasks' # tasks \/ treq' # treq) =>
          \A r \in DOMAIN reminders :
              r \in DOMAIN reminders' /\ reminders'[r] = reminders[r]]_vars

\* a task was completed while its reminder was stored, and a later pass fired
\* the reminder at its reminder_time
C31_Witness ==
    \E t \in DOMAIN tasks : \E r \in DOMAIN reminders :
        /\ tasks[t].status = "completed"
        /\ reminders[r].task_id = ObjectIdStr(t)
        /\ reminders[r].updated_at > tasks[t].completed_at
        /\ reminders[r].status = "sent"
        /\ reminders[r].sent_at >= reminders[r].reminder_time
        /\ FiredFor(r) # {}

\* ---------------------------------------------------------------- updates against deletes

\* C32: an update that has been answered returned the updated record (200,
\* with every field of the body as the body gave it) or not found (404); it
\* has not failed in another way.
C32_UpdateReturnsRecordOrNotFound ==
    ureq.pc = "done" =>
        \/ ureq.code = 404
        \/ /\ ureq.code = 200
           /\ \A f \in DOMAIN ureq.update_data : ureq.response[f] = ureq.update_data[f]

====
